---- MODULE Spec2Model ----
(***************************************************************************)
(* check-python-versions: support for pyproject.toml                       *)
(* (src/src/check_python_versions/sources/pyproject.py).                   *)
(*                                                                         *)
(* A pyproject.toml document is a tree of tables, lists and scalars.  A    *)
(* string is a sequence of tokens (punctuation characters, words and       *)
(* decimal numbers), so that substring tests, parsing and rendering are    *)
(* computed and not assumed.  Every operation of the module is an          *)
(* operator from a file (a path, or a file object with a read position)    *)
(* to an outcome: the value returned or the exception raised, the lines    *)
(* written to the error channel, and the position the file is left at.     *)
(*                                                                         *)
(* The build-system table, when present, is well typed (build-backend a    *)
(* string, requires a list of strings), and tool, tool.poetry,             *)
(* tool.poetry.dependencies and project, when present, are tables.         *)
(***************************************************************************)
EXTENDS Integers, Sequences, FiniteSets, TLC

VARIABLES file, max3, call, ret, err

vars == <<file, max3, call, ret, err>>

----------------------------------------------------------------------------
(* Bounds of the model *)

\* largest Python 3 minor version the model lets "known versions" reach
MaxMinor3 == 2
\* longest classifiers list of the classifier family of documents
MaxLines == 2

\* the latest Python 3 minor version the program knows when nothing overrides it
ScenarioMax == 11

----------------------------------------------------------------------------
(* Keys of the document *)

CLASSIFIERS == "classifiers"
DEPENDENCIES == "dependencies"
PYTHON == "python"
PYTHON_REQUIRES == "requires-python"
TOOL == "tool"
POETRY == "poetry"
BUILD_SYSTEM == "build-system"
BUILD_BACKEND == "build-backend"
REQUIRES == "requires"
PROJECT == "project"
SETUPTOOLS == "setuptools"
FLIT == "flit"

NOT_AN_ARRAY == "The value specified for classifiers is not an array"
NOT_A_STRING == "The value specified for python dependency is not a string"

----------------------------------------------------------------------------
(* Values: Python / TOML values as tagged records *)

None == [t |-> "None"]
Str(s) == [t |-> "str", v |-> s]
List(s) == [t |-> "list", v |-> s]
Integer(n) == [t |-> "int", n |-> n]
Table(f) == [t |-> "table", v |-> f]
\* the lines of a serialized document, dumps(table).split('\n')
Lines(tb) == [t |-> "lines", v |-> tb]
Raise(e) == [t |-> "raise", v |-> e]

EmptyMap == [k \in {} |-> None]
EmptyTable == Table(EmptyMap)

\* a token of a string: a punctuation character or word, or a decimal number
Ch(c) == [k |-> c, n |-> 0]
Num(n) == [k |-> "num", n |-> n]

\* Python truthiness: bool(x) is False
Falsy(x) ==
  \/ x.t = "None"
  \/ x.t \in {"str", "list"} /\ Len(x.v) = 0
  \/ x.t = "int" /\ x.n = 0
  \/ x.t = "table" /\ DOMAIN x.v = {}

\* key in table
HasKey(tb, key) == key \in DOMAIN tb.v

\* table.get(key, default)
Get(tb, key, default) == IF key \in DOMAIN tb.v THEN tb.v[key] ELSE default

\* word in s, for a string s: a substring test
InStr(word, s) == \E i \in 1..Len(s.v) : s.v[i] = Ch(word)

\* table[key] = value: replaces the leaf, or adds it to an existing table
SetKey(tb, key, value) ==
  Table([k \in DOMAIN tb.v \cup {key} |-> IF k = key THEN value ELSE tb.v[k]])

----------------------------------------------------------------------------
(* Files *)

\* load_toml: a path is opened and read whole at each load; a file object is
\* read from its position to its end, which is where the load leaves it
load_toml(f) ==
  IF f.kind = "str" \/ f.kind = "StringIO"
  THEN IF f.kind = "str" \/ f.atStart THEN f.content ELSE EmptyTable
  ELSE IF f.kind = "TextIOWrapper"
       THEN IF f.atStart THEN f.content ELSE EmptyTable
       ELSE None

\* the file after a load
Loaded(f) == IF f.kind = "str" THEN f ELSE [f EXCEPT !.atStart = FALSE]

is_file_object(f) == f.kind # "str"

\* filename.seek(0)
Seek0(f) == [f EXCEPT !.atStart = TRUE]

----------------------------------------------------------------------------
(* Convention detectors *)

is_poetry_toml(table) ==
  IF HasKey(Get(table, TOOL, EmptyTable), POETRY) THEN TRUE
  ELSE IF HasKey(table, BUILD_SYSTEM)
       THEN IF InStr(POETRY, Get(table.v[BUILD_SYSTEM], BUILD_BACKEND, Str(<<>>)))
            THEN TRUE
            ELSE LET reqs == Get(table.v[BUILD_SYSTEM], REQUIRES, List(<<>>)).v
                 IN  \E i \in 1..Len(reqs) : InStr(POETRY, reqs[i])
       ELSE FALSE

is_setuptools_toml(table) ==
  IF /\ HasKey(table, BUILD_SYSTEM)
     /\ \/ InStr(SETUPTOOLS, Get(table.v[BUILD_SYSTEM], BUILD_BACKEND, Str(<<>>)))
        \/ LET reqs == Get(table.v[BUILD_SYSTEM], REQUIRES, List(<<>>)).v
           IN  \E i \in 1..Len(reqs) : InStr(SETUPTOOLS, reqs[i])
  THEN TRUE
  ELSE IF HasKey(Get(table, TOOL, EmptyTable), SETUPTOOLS) THEN TRUE
       ELSE FALSE

\* is_flit_toml as the last branch of an if / elif chain over the conventions
is_flit_toml_exclusive(table) ==
  IF is_poetry_toml(table) \/ is_setuptools_toml(table) THEN FALSE
  ELSE IF HasKey(Get(table, TOOL, EmptyTable), FLIT) THEN TRUE
  ELSE IF HasKey(table, BUILD_SYSTEM)
       THEN IF InStr(FLIT, Get(table.v[BUILD_SYSTEM], BUILD_BACKEND, Str(<<>>)))
            THEN TRUE
            ELSE LET reqs == Get(table.v[BUILD_SYSTEM], REQUIRES, List(<<>>)).v
                 IN  \E i \in 1..Len(reqs) : InStr(FLIT, reqs[i])
       ELSE FALSE

is_flit_toml(table) ==
  IF HasKey(Get(table, TOOL, EmptyTable), FLIT) THEN TRUE
  ELSE IF HasKey(table, BUILD_SYSTEM)
       THEN IF InStr(FLIT, Get(table.v[BUILD_SYSTEM], BUILD_BACKEND, Str(<<>>)))
            THEN TRUE
            ELSE LET reqs == Get(table.v[BUILD_SYSTEM], REQUIRES, List(<<>>)).v
                 IN  \E i \in 1..Len(reqs) : InStr(FLIT, reqs[i])
       ELSE FALSE

----------------------------------------------------------------------------
(* Reading the declaration fields *)

_get_poetry_classifiers(table) ==
  IF ~HasKey(table, TOOL) THEN List(<<>>)
  ELSE IF ~HasKey(table.v[TOOL], POETRY) THEN List(<<>>)
  ELSE IF ~HasKey(table.v[TOOL].v[POETRY], CLASSIFIERS) THEN List(<<>>)
  ELSE table.v[TOOL].v[POETRY].v[CLASSIFIERS]

\* _get_setuptools_flit_classifiers falling back on tool.poetry when the
\* [project] table declares no classifiers
_get_setuptools_flit_classifiers_fallback(table) ==
  IF ~HasKey(table, PROJECT) THEN _get_poetry_classifiers(table)
  ELSE IF ~HasKey(table.v[PROJECT], CLASSIFIERS) THEN _get_poetry_classifiers(table)
  ELSE table.v[PROJECT].v[CLASSIFIERS]

_get_setuptools_flit_classifiers(table) ==
  IF ~HasKey(table, PROJECT) THEN List(<<>>)
  ELSE IF ~HasKey(table.v[PROJECT], CLASSIFIERS) THEN List(<<>>)
  ELSE table.v[PROJECT].v[CLASSIFIERS]

\* the two reads as an if / elif: Poetry's value wins when both are detected
_get_pyproject_toml_classifiers_elif(f) ==
  LET table == load_toml(f)
  IN  IF is_poetry_toml(table) THEN _get_poetry_classifiers(table)
      ELSE IF is_setuptools_toml(table) \/ is_flit_toml(table)
           THEN _get_setuptools_flit_classifiers(table) ELSE List(<<>>)

_get_pyproject_toml_classifiers(f) ==
  LET table == load_toml(f)
      c1 == IF is_poetry_toml(table)
            THEN _get_poetry_classifiers(table) ELSE List(<<>>)
  IN  IF is_setuptools_toml(table) \/ is_flit_toml(table)
      THEN _get_setuptools_flit_classifiers(table) ELSE c1

\* _get_poetry_python_requires looking for the key of the [project] table
_get_poetry_python_requires_wrong_key(table) ==
  IF ~HasKey(table, TOOL) THEN None
  ELSE IF ~HasKey(table.v[TOOL], POETRY) THEN None
  ELSE IF ~HasKey(table.v[TOOL].v[POETRY], DEPENDENCIES) THEN None
  ELSE IF ~HasKey(table.v[TOOL].v[POETRY].v[DEPENDENCIES], PYTHON_REQUIRES) THEN None
  ELSE table.v[TOOL].v[POETRY].v[DEPENDENCIES].v[PYTHON_REQUIRES]

_get_poetry_python_requires(table) ==
  IF ~HasKey(table, TOOL) THEN None
  ELSE IF ~HasKey(table.v[TOOL], POETRY) THEN None
  ELSE IF ~HasKey(table.v[TOOL].v[POETRY], DEPENDENCIES) THEN None
  ELSE IF ~HasKey(table.v[TOOL].v[POETRY].v[DEPENDENCIES], PYTHON) THEN None
  ELSE table.v[TOOL].v[POETRY].v[DEPENDENCIES].v[PYTHON]

_get_setuptools_flit_python_requires(table) ==
  IF ~HasKey(table, PROJECT) THEN None
  ELSE IF ~HasKey(table.v[PROJECT], PYTHON_REQUIRES) THEN None
  ELSE table.v[PROJECT].v[PYTHON_REQUIRES]

\* the two reads as an if / elif: Poetry's value wins when both are detected
_get_pyproject_toml_python_requires_elif(f) ==
  LET table == load_toml(f)
  IN  IF is_poetry_toml(table) THEN _get_poetry_python_requires(table)
      ELSE IF is_setuptools_toml(table) \/ is_flit_toml(table)
           THEN _get_setuptools_flit_python_requires(table) ELSE None

_get_pyproject_toml_python_requires(f) ==
  LET table == load_toml(f)
      r1 == IF is_poetry_toml(table)
            THEN _get_poetry_python_requires(table) ELSE None
  IN  IF is_setuptools_toml(table) \/ is_flit_toml(table)
      THEN _get_setuptools_flit_python_requires(table) ELSE r1

----------------------------------------------------------------------------
(* Versions *)

Version(major, minor) == [major |-> major, minor |-> minor]

\* the total order of versions: numeric, by (major, minor)
Less(a, b) == a.major < b.major \/ (a.major = b.major /\ a.minor < b.minor)

RECURSIVE SortVersions(_)
\* the strictly increasing list of the versions of a set
SortVersions(S) ==
  IF S = {} THEN <<>>
  ELSE LET m == CHOOSE x \in S : \A y \in S : ~Less(y, x)
       IN  <<m>> \o SortVersions(S \ {m})

\* Version.__str__: "major.minor"
Render(ver) == <<Num(ver.major), Ch("."), Num(ver.minor)>>

\* whether a string is "major.minor"
IsVersionString(s) ==
  Len(s) = 3 /\ s[1].k = "num" /\ s[2] = Ch(".") /\ s[3].k = "num"

\* Version.from_string, of a string that is "major.minor"
from_string(s) == Version(s[1].n, s[3].n)

\* the versions known to exist, ascending: 2.7, then 3.0 .. 3.max
KnownVersions(max) == <<Version(2, 7)>> \o [i \in 1..(max + 1) |-> Version(3, i - 1)]

Range(s) == {s[i] : i \in 1..Len(s)}

----------------------------------------------------------------------------
(* Classifier list codec *)

PREFIX == "Programming Language :: Python :: "

\* a line that declares one version: the prefix, then a digit
is_version_classifier(s) ==
  Len(s.v) >= 2 /\ s.v[1] = Ch(PREFIX) /\ s.v[2].k = "num"

\* decode: the versions of the lines that match, deduplicated and sorted
get_versions_from_classifiers(classifiers) ==
  List(SortVersions({from_string(SubSeq(classifiers[i].v, 2, Len(classifiers[i].v))) :
                       i \in {j \in 1..Len(classifiers) :
                                is_version_classifier(classifiers[j])}}))

\* encode: one classifier line per version, in the order given
VersionClassifiers(versions) ==
  [i \in 1..Len(versions) |-> Str(<<Ch(PREFIX)>> \o Render(versions[i]))]

NotVersionClassifier(s) == ~is_version_classifier(s)

\* the classifiers with the version lines replaced by those of new_versions,
\* put where the first version line was
update_classifiers(classifiers, new_versions) ==
  LET hits == {i \in 1..Len(classifiers) : is_version_classifier(classifiers[i])}
      pos == IF hits = {} THEN Len(classifiers) + 1
             ELSE CHOOSE i \in hits : \A j \in hits : i <= j
      rest == SelectSeq(classifiers, NotVersionClassifier)
  IN  SubSeq(rest, 1, pos - 1) \o VersionClassifiers(new_versions)
        \o SubSeq(rest, pos, Len(rest))

----------------------------------------------------------------------------
(* Range expression codec *)

\* pat in s, for two strings: pat occurs in s
SubStr(pat, s) ==
  \E i \in 0..(Len(s) - Len(pat)) : \A j \in 1..Len(pat) : s[i + j] = pat[j]

RECURSIVE Join(_, _)
\* sep.join(parts)
Join(parts, sep) ==
  IF Len(parts) = 0 THEN <<>>
  ELSE IF Len(parts) = 1 THEN parts[1]
  ELSE parts[1] \o sep \o Join(Tail(parts), sep)

\* encode: ">=" first, then "!=" v ".*" for every known version v above the
\* first that is not in the list, ascending, joined by comma
compute_python_requires(new_versions, comma, space, max) ==
  LET min_version == new_versions[1]
      known == KnownVersions(max)
      IsExcluded(v) == Less(min_version, v) /\ v \notin Range(new_versions)
      excluded == SelectSeq(known, IsExcluded)
      specifiers ==
        <<(<<Ch(">"), Ch("=")>> \o space \o Render(min_version))>>
        \o [i \in 1..Len(excluded) |->
              <<Ch("!"), Ch("=")>> \o space \o Render(excluded[i])
                \o <<Ch("."), Ch("*")>>]
  IN  Join(specifiers, comma)

RECURSIVE Split(_)
\* s.split(',')
Split(s) ==
  LET commas == {i \in 1..Len(s) : s[i] = Ch(",")}
  IN  IF commas = {} THEN <<s>>
      ELSE LET i == CHOOSE c \in commas : \A d \in commas : c <= d
           IN  <<SubSeq(s, 1, i - 1)>> \o Split(SubSeq(s, i + 1, Len(s)))

RECURSIVE LStrip(_)
LStrip(s) == IF Len(s) > 0 /\ s[1] = Ch(" ") THEN LStrip(Tail(s)) ELSE s

RECURSIVE RStrip(_)
RStrip(s) ==
  IF Len(s) > 0 /\ s[Len(s)] = Ch(" ") THEN RStrip(SubSeq(s, 1, Len(s) - 1)) ELSE s

\* s.strip()
Strip(s) == LStrip(RStrip(s))

\* the argument of a clause: what follows its two-character operator
ClauseArg(c) == LStrip(SubSeq(c, 3, Len(c)))

\* a lower-bound clause, ">= major.minor"
IsLowerBound(c) ==
  Len(c) >= 2 /\ c[1] = Ch(">") /\ c[2] = Ch("=") /\ IsVersionString(ClauseArg(c))

\* an exclusion clause, "!= major.minor.*"
IsExclusion(c) ==
  /\ Len(c) >= 2 /\ c[1] = Ch("!") /\ c[2] = Ch("=")
  /\ Len(ClauseArg(c)) = 5
  /\ IsVersionString(SubSeq(ClauseArg(c), 1, 3))
  /\ SubSeq(ClauseArg(c), 4, 5) = <<Ch("."), Ch("*")>>

\* decode: the known versions from the lower bound up, minus the exclusions;
\* a ParseError when the expression spans lines, has no lower bound or has a
\* clause that is neither
parse_python_requires(s, max) ==
  LET parts == Split(s)
      clauses == [i \in 1..Len(parts) |-> Strip(parts[i])]
      lower == {i \in 1..Len(clauses) : IsLowerBound(clauses[i])}
      excl == {i \in 1..Len(clauses) : IsExclusion(clauses[i])}
  IN  IF \/ \E i \in 1..Len(s) : s[i] = Ch("\n")
         \/ Cardinality(lower) # 1
         \/ lower \cup excl # 1..Len(clauses)
      THEN Raise("ParseError")
      ELSE LET first == from_string(ClauseArg(clauses[CHOOSE i \in lower : TRUE]))
               out == {from_string(SubSeq(ClauseArg(clauses[i]), 1, 3)) : i \in excl}
               Kept(v) == ~Less(v, first) /\ v \notin out
           IN  List(SelectSeq(KnownVersions(max), Kept))

----------------------------------------------------------------------------
(* Writing the declaration fields.  A setter assigns in the loaded table   *)
(* and serializes it; it returns the lines, or the KeyError of a missing   *)
(* intermediate table, and the table as it is afterwards.                  *)

_set_poetry_classifiers(table, new_value) ==
  IF ~HasKey(table, TOOL) \/ ~HasKey(table.v[TOOL], POETRY)
  THEN [ret |-> Raise("KeyError"), table |-> table]
  ELSE LET t2 == SetKey(table, TOOL,
                   SetKey(table.v[TOOL], POETRY,
                     SetKey(table.v[TOOL].v[POETRY], CLASSIFIERS, new_value)))
       IN  [ret |-> Lines(t2), table |-> t2]

_set_setuptools_flit_classifiers(table, new_value) ==
  IF ~HasKey(table, PROJECT)
  THEN [ret |-> Raise("KeyError"), table |-> table]
  ELSE LET t2 == SetKey(table, PROJECT,
                   SetKey(table.v[PROJECT], CLASSIFIERS, new_value))
       IN  [ret |-> Lines(t2), table |-> t2]

_update_pyproject_toml_classifiers(f, new_value) ==
  LET table == load_toml(f)
      s1 == IF is_poetry_toml(table)
            THEN _set_poetry_classifiers(table, new_value)
            ELSE [ret |-> None, table |-> table]
  IN  IF s1.ret.t = "raise" THEN s1.ret
      ELSE IF is_setuptools_toml(s1.table) \/ is_flit_toml(s1.table)
           THEN _set_setuptools_flit_classifiers(s1.table, new_value).ret
           ELSE s1.ret

\* _set_poetry_python_requires assigning the classifiers key, as the setter it
\* was copied from does
_set_poetry_python_requires_copied(table, new_value) ==
  IF \/ ~HasKey(table, TOOL)
     \/ ~HasKey(table.v[TOOL], POETRY)
     \/ ~HasKey(table.v[TOOL].v[POETRY], DEPENDENCIES)
  THEN [ret |-> Raise("KeyError"), table |-> table]
  ELSE LET t2 == SetKey(table, TOOL,
                   SetKey(table.v[TOOL], POETRY,
                     SetKey(table.v[TOOL].v[POETRY], CLASSIFIERS, new_value)))
       IN  [ret |-> Lines(t2), table |-> t2]

_set_poetry_python_requires(table, new_value) ==
  IF \/ ~HasKey(table, TOOL)
     \/ ~HasKey(table.v[TOOL], POETRY)
     \/ ~HasKey(table.v[TOOL].v[POETRY], DEPENDENCIES)
  THEN [ret |-> Raise("KeyError"), table |-> table]
  ELSE LET t2 == SetKey(table, TOOL,
                   SetKey(table.v[TOOL], POETRY,
                     SetKey(table.v[TOOL].v[POETRY], DEPENDENCIES,
                       SetKey(table.v[TOOL].v[POETRY].v[DEPENDENCIES],
                              PYTHON, new_value))))
       IN  [ret |-> Lines(t2), table |-> t2]

\* _set_setuptools_flit_python_requires assigning the classifiers key, as the
\* setter it was copied from does
_set_setuptools_flit_python_requires_copied(table, new_value) ==
  IF ~HasKey(table, PROJECT)
  THEN [ret |-> Raise("KeyError"), table |-> table]
  ELSE LET t2 == SetKey(table, PROJECT,
                   SetKey(table.v[PROJECT], CLASSIFIERS, new_value))
       IN  [ret |-> Lines(t2), table |-> t2]

_set_setuptools_flit_python_requires(table, new_value) ==
  IF ~HasKey(table, PROJECT)
  THEN [ret |-> Raise("KeyError"), table |-> table]
  ELSE LET t2 == SetKey(table, PROJECT,
                   SetKey(table.v[PROJECT], PYTHON_REQUIRES, new_value))
       IN  [ret |-> Lines(t2), table |-> t2]

_update_pyproject_python_requires(f, new_value) ==
  LET table == load_toml(f)
      s1 == IF is_poetry_toml(table)
            THEN _set_poetry_python_requires(table, new_value)
            ELSE [ret |-> List(<<>>), table |-> table]
  IN  IF s1.ret.t = "raise" THEN s1.ret
      ELSE IF is_setuptools_toml(s1.table) \/ is_flit_toml(s1.table)
           THEN _set_setuptools_flit_python_requires(s1.table, new_value).ret
           ELSE s1.ret

----------------------------------------------------------------------------
(* The four operations.  An outcome is the value returned (or the          *)
(* exception raised), the lines warn() wrote to the error channel, and the *)
(* file as the call leaves it.                                             *)

Outcome(r, e, f) == [ret |-> r, err |-> e, file |-> f]

get_supported_python_versions(f) ==
  LET classifiers == _get_pyproject_toml_classifiers(f)
  IN  IF Falsy(classifiers)
      THEN Outcome(List(<<>>), <<>>, Loaded(f))
      ELSE IF classifiers.t # "list"
           THEN Outcome(List(<<>>), <<NOT_AN_ARRAY>>, Loaded(f))
           ELSE Outcome(get_versions_from_classifiers(classifiers.v), <<>>, Loaded(f))

\* get_python_requires without its isinstance test: a value that is not a
\* string reaches the decoder, which fails on it
get_python_requires_unchecked(f, max) ==
  LET python_requires == _get_pyproject_toml_python_requires(f)
  IN  IF Falsy(python_requires)
      THEN Outcome(None, <<NOT_A_STRING>>, Loaded(f))
      ELSE IF python_requires.t # "str"
           THEN Outcome(Raise("AttributeError"), <<>>, Loaded(f))
           ELSE Outcome(parse_python_requires(python_requires.v, max), <<>>, Loaded(f))

get_python_requires(f, max) ==
  LET python_requires == _get_pyproject_toml_python_requires(f)
  IN  IF Falsy(python_requires) \/ python_requires.t # "str"
      THEN Outcome(None, <<NOT_A_STRING>>, Loaded(f))
      ELSE Outcome(parse_python_requires(python_requires.v, max), <<>>, Loaded(f))

update_supported_python_versions(f, new_versions) ==
  LET classifiers == _get_pyproject_toml_classifiers(f)
  IN  IF classifiers.t # "list" \/ Falsy(classifiers)
      THEN Outcome(None, <<NOT_AN_ARRAY>>, Loaded(f))
      ELSE LET new_classifiers == update_classifiers(classifiers.v, new_versions)
           IN  Outcome(_update_pyproject_toml_classifiers(Loaded(f), List(new_classifiers)),
                       <<>>, Loaded(Loaded(f)))

\* x == python_requires in the place of x in python_requires
PyIn_equal(x, python_requires) ==
  python_requires.t = "str" /\ python_requires.v = x

\* x in python_requires, for a string x: a substring of a string, an element
\* of a list, a key of a table; anything else is not iterable
PyIn(x, python_requires) ==
  IF python_requires.t = "str" THEN SubStr(x, python_requires.v)
  ELSE IF python_requires.t = "list" THEN Str(x) \in Range(python_requires.v)
  ELSE FALSE

\* update_python_requires warning about a missing field as get_python_requires does
update_python_requires_warns(f, new_versions, max) ==
  LET python_requires == _get_pyproject_toml_python_requires(f)
  IN  IF Falsy(python_requires) \/ python_requires.t # "str"
      THEN Outcome(None, <<NOT_A_STRING>>, Loaded(f))
      ELSE LET comma == IF /\ PyIn(<<Ch(",")>>, python_requires)
                           /\ ~PyIn(<<Ch(","), Ch(" ")>>, python_requires)
                        THEN <<Ch(",")>> ELSE <<Ch(","), Ch(" ")>>
               space == IF \/ PyIn(<<Ch(">"), Ch(" ")>>, python_requires)
                           \/ PyIn(<<Ch("="), Ch(" ")>>, python_requires)
                        THEN <<Ch(" ")>> ELSE <<>>
               new_requires == compute_python_requires(new_versions, comma, space, max)
               f2 == IF is_file_object(f) THEN Seek0(Loaded(f)) ELSE Loaded(f)
           IN  Outcome(_update_pyproject_python_requires(f2, Str(new_requires)),
                       <<>>, Loaded(f2))

update_python_requires(f, new_versions, max) ==
  LET python_requires == _get_pyproject_toml_python_requires(f)
  IN  IF python_requires = None
      THEN Outcome(None, <<>>, Loaded(f))
      ELSE IF python_requires.t \notin {"str", "list", "table"}
      THEN Outcome(Raise("TypeError"), <<>>, Loaded(f))
      ELSE LET comma == IF /\ PyIn(<<Ch(",")>>, python_requires)
                           /\ ~PyIn(<<Ch(","), Ch(" ")>>, python_requires)
                        THEN <<Ch(",")>> ELSE <<Ch(","), Ch(" ")>>
               space == IF \/ PyIn(<<Ch(">"), Ch(" ")>>, python_requires)
                           \/ PyIn(<<Ch("="), Ch(" ")>>, python_requires)
                        THEN <<Ch(" ")>> ELSE <<>>
               new_requires == compute_python_requires(new_versions, comma, space, max)
               f2 == IF is_file_object(f) THEN Seek0(Loaded(f)) ELSE Loaded(f)
           IN  Outcome(_update_pyproject_python_requires(f2, Str(new_requires)),
                       <<>>, Loaded(f2))

----------------------------------------------------------------------------
(* The documents the operations are given *)

Word(w) == Str(<<Ch(w)>>)

\* a classifier line declaring a version, and two lines that do not
PyLine(major, minor) == Str(<<Ch(PREFIX)>> \o Render(Version(major, minor)))
OtherLines ==
  {Word("License :: OSI Approved :: MIT License"),
   Str(<<Ch(PREFIX), Ch("Implementation :: CPython")>>)}
LinePool == {PyLine(2, 7), PyLine(3, 6), PyLine(3, 10)} \cup OtherLines

\* the sequences over S of length at most n
SeqsUpTo(S, n) == UNION {[1..k -> S] : k \in 0..n}

\* a multi-line string in the place of a list
MultiLine ==
  Str(<<Ch("\n"), Ch(PREFIX)>> \o Render(Version(3, 6)) \o <<Ch("\n")>>)

\* values found under a classifiers key
ClassifierValues ==
  {List(<<PyLine(3, 6)>>), List(<<>>), MultiLine, Str(<<>>)}

GE(major, minor) == <<Ch(">"), Ch("=")>> \o Render(Version(major, minor))

\* values found under a requires-python / python key
RequiresValues ==
  {Str(GE(3, 0)), List(<<Str(GE(3, 0))>>), Str(<<>>), Integer(3)}

PoetryTables ==
  {EmptyTable, Table(DEPENDENCIES :> EmptyTable),
   Table(CLASSIFIERS :> List(<<PyLine(2, 7)>>)
         @@ DEPENDENCIES :> Table(PYTHON :> Str(GE(2, 7))))}
  \cup {Table(CLASSIFIERS :> c) : c \in ClassifierValues}
  \cup {Table(DEPENDENCIES :> Table(PYTHON :> r)) : r \in RequiresValues}

ProjectTables ==
  {Table("name" :> Word("foo")),
   Table(CLASSIFIERS :> List(<<PyLine(3, 6)>>) @@ PYTHON_REQUIRES :> Str(GE(3, 0)))}
  \cup {Table("name" :> Word("foo") @@ CLASSIFIERS :> c) : c \in ClassifierValues}
  \cup {Table("name" :> Word("foo") @@ PYTHON_REQUIRES :> r) : r \in RequiresValues}

ToolTables ==
  {Table("black" :> EmptyTable), Table(SETUPTOOLS :> EmptyTable)}
  \cup {Table(POETRY :> p) : p \in PoetryTables}

Backends ==
  {Str(<<Ch(FLIT), Ch("_core.buildapi")>>),
   Str(<<Ch(SETUPTOOLS), Ch(".build_meta")>>),
   Str(<<Ch(POETRY), Ch(".core.masonry.api")>>),
   Str(<<Ch("hatchling"), Ch(".build")>>)}

Requirements ==
  {Str(<<Ch(FLIT), Ch("_core >=3.2,<4")>>), Word(SETUPTOOLS),
   Str(<<Ch(POETRY), Ch("-core")>>), Word("wheel")}

\* every build-system table the detectors can tell apart
BuildTables ==
  {EmptyTable}
  \cup {Table(BUILD_BACKEND :> b) : b \in Backends}
  \cup {Table(REQUIRES :> List(r)) : r \in SeqsUpTo(Requirements, 2)}
  \cup {Table(BUILD_BACKEND :> b @@ REQUIRES :> List(<<r>>)) :
          b \in Backends, r \in Requirements}

\* the build-system tables of the documents that vary the declaration fields
FewBuildTables ==
  {Table(BUILD_BACKEND :> Str(<<Ch(FLIT), Ch("_core.buildapi")>>)),
   Table(BUILD_BACKEND :> Str(<<Ch(POETRY), Ch(".core.masonry.api")>>)),
   Table(REQUIRES :> List(<<Str(<<Ch(POETRY), Ch("-core")>>), Word(SETUPTOOLS)>>)),
   Table(REQUIRES :> List(<<Word("wheel")>>))}

\* a document of up to three top-level tables; None is a table left out
Document(tool, build, project) ==
  Table([k \in {x \in {TOOL, BUILD_SYSTEM, PROJECT} :
                  \/ x = TOOL /\ tool # None
                  \/ x = BUILD_SYSTEM /\ build # None
                  \/ x = PROJECT /\ project # None}
          |-> IF k = TOOL THEN tool ELSE IF k = BUILD_SYSTEM THEN build ELSE project])

\* tool tables with any set of convention keys, for the detectors
MarkerToolTables ==
  {Table([k \in K |-> EmptyTable]) : K \in SUBSET {POETRY, SETUPTOOLS, FLIT, "black"}}

DetectorDocuments ==
  {Document(t, b, None) :
     t \in MarkerToolTables \cup {None}, b \in BuildTables \cup {None}}

ShapeDocuments ==
  {Document(t, b, p) :
     t \in ToolTables \cup {None}, b \in FewBuildTables \cup {None},
     p \in ProjectTables \cup {None}}

FlitBuild == Table(BUILD_BACKEND :> Str(<<Ch(FLIT), Ch("_core.buildapi")>>))
PoetryBuild == Table(BUILD_BACKEND :> Str(<<Ch(POETRY), Ch(".core.masonry.api")>>))

\* documents that vary the classifiers list
ClassifierDocuments ==
  {Document(None, FlitBuild, Table(CLASSIFIERS :> List(c))) :
     c \in SeqsUpTo(LinePool, MaxLines)}
  \cup {Document(Table(POETRY :> Table(CLASSIFIERS :> List(c))), PoetryBuild, None) :
          c \in SeqsUpTo(LinePool, MaxLines)}

\* the non-empty strictly ascending lists of known versions
VersionLists(max) ==
  {SortVersions(S) : S \in SUBSET Range(KnownVersions(max)) \ {{}}}

Commas == {<<Ch(",")>>, <<Ch(","), Ch(" ")>>}
Spaces == {<<>>, <<Ch(" ")>>}

NE(major, minor) ==
  <<Ch("!"), Ch("=")>> \o Render(Version(major, minor)) \o <<Ch("."), Ch("*")>>

\* well-formed expressions written by hand: '>= 3.0,!=3.1.*' (a space after
\* one operator only), '!=3.1.*,>=3.0' (the lower bound last) and
\* '>=3.0,!=2.7.*' (an exclusion below the lower bound)
HandWritten ==
  {<<Ch(">"), Ch("="), Ch(" ")>> \o Render(Version(3, 0)) \o <<Ch(",")>> \o NE(3, 1),
   NE(3, 1) \o <<Ch(",")>> \o GE(3, 0),
   GE(3, 0) \o <<Ch(",")>> \o NE(2, 7)}

\* range expressions: every encoding in every style, hand-written and
\* malformed ones
Expressions(max) ==
  {compute_python_requires(V, c, sp, max) :
     V \in VersionLists(max), c \in Commas, sp \in Spaces}
  \cup {GE(3, 0) \o <<Ch(","), Ch("\n")>> \o
          <<Ch("!"), Ch("=")>> \o Render(Version(3, 1)) \o <<Ch("."), Ch("*")>>,
        <<Ch("!"), Ch("=")>> \o Render(Version(3, 0)) \o <<Ch("."), Ch("*")>>,
        <<Ch("python3")>>}
  \cup HandWritten

\* documents that vary the range expression
RangeDocuments(max) ==
  {Document(None, FlitBuild, Table(PYTHON_REQUIRES :> Str(e))) : e \in Expressions(max)}
  \cup {Document(Table(POETRY :> Table(DEPENDENCIES :> Table(PYTHON :> Str(e)))),
                 PoetryBuild, None) : e \in Expressions(max)}

\* the documents of the tests of update_python_requires: '>=2.7,!=3.0.*' and
\* '>=2.7, !=3.0.*' in the [project] table of a flit document
ScenarioBuild ==
  Table(REQUIRES :> List(<<Str(<<Ch(FLIT), Ch("_core >=3.2,<4")>>)>>)
        @@ BUILD_BACKEND :> Str(<<Ch(FLIT), Ch("_core.buildapi")>>))

ScenarioDocuments ==
  {Document(None, ScenarioBuild,
            Table("name" :> Word("foo") @@ PYTHON_REQUIRES :> Str(GE(2, 7) \o c \o NE(3, 0)))) :
     c \in Commas}

\* the version lists a caller asks for: of the known versions, up to 3.MaxMinor3
TargetVersionLists(max) == VersionLists(IF max > MaxMinor3 THEN MaxMinor3 ELSE max)

FileKinds == {"str", "StringIO", "TextIOWrapper"}

File(kind, atStart, content) == [kind |-> kind, atStart |-> atStart, content |-> content]

----------------------------------------------------------------------------
(* The state machine: a caller holds a file and calls one operation on it; *)
(* call records the operation, its new_versions and where the file stood.  *)
(* The file is a path, or a file object at its start or, for the documents *)
(* that vary the classifiers or the range expression, read to its end.     *)

NoCall == [op |-> "none", new_versions |-> <<>>, atStart |-> TRUE]

Init ==
  /\ \/ /\ max3 = MaxMinor3
        /\ \E d \in DetectorDocuments : file = File("str", TRUE, d)
     \/ /\ max3 = MaxMinor3
        /\ \E d \in ShapeDocuments, k \in {"str", "StringIO"} : file = File(k, TRUE, d)
     \/ /\ max3 = MaxMinor3
        /\ \E d \in ClassifierDocuments, k \in FileKinds : file = File(k, TRUE, d)
     \/ /\ max3 \in {MaxMinor3 - 1, MaxMinor3}
        /\ \E d \in RangeDocuments(max3), k \in FileKinds : file = File(k, TRUE, d)
     \/ /\ max3 \in {MaxMinor3, ScenarioMax}
        /\ \E d \in ScenarioDocuments, k \in {"str", "StringIO"} : file = File(k, TRUE, d)
     \/ /\ max3 = MaxMinor3
        /\ \E d \in ClassifierDocuments \cup RangeDocuments(max3),
              k \in {"StringIO", "TextIOWrapper"} : file = File(k, FALSE, d)
  /\ call = NoCall
  /\ ret = None
  /\ err = <<>>

Returns(op, new_versions, outcome) ==
  /\ call = NoCall
  /\ call' = [op |-> op, new_versions |-> new_versions, atStart |-> file.atStart]
  /\ ret' = outcome.ret
  /\ err' = outcome.err
  /\ file' = outcome.file
  /\ UNCHANGED max3

\* table = load_toml(filename), then the three detectors on it
Detect ==
  LET table == load_toml(file)
  IN  Returns("detect", <<>>,
              Outcome([t |-> "detect", poetry |-> is_poetry_toml(table),
                       setuptools |-> is_setuptools_toml(table),
                       flit |-> is_flit_toml(table)],
                      <<>>, Loaded(file)))

GetSupportedPythonVersions ==
  Returns("get_supported_python_versions", <<>>, get_supported_python_versions(file))

GetPythonRequires ==
  Returns("get_python_requires", <<>>, get_python_requires(file, max3))

UpdateSupportedPythonVersions ==
  \E new_versions \in TargetVersionLists(max3) :
    Returns("update_supported_python_versions", new_versions,
            update_supported_python_versions(file, new_versions))

UpdatePythonRequires ==
  \E new_versions \in TargetVersionLists(max3) :
    Returns("update_python_requires", new_versions,
            update_python_requires(file, new_versions, max3))

Next ==
  \/ Detect
  \/ GetSupportedPythonVersions
  \/ GetPythonRequires
  \/ UpdateSupportedPythonVersions
  \/ UpdatePythonRequires

Spec == Init /\ [][Next]_vars

----------------------------------------------------------------------------
(* Vocabulary of the properties, stated on the document and not through    *)
(* the operators above                                                     *)

\* the document the call was given, when it could read it from the start
Given == file.content
FromStart == file.kind = "str" \/ call.atStart

RECURSIVE At(_, _)
\* the value at a path of keys; None when a key of the path is missing
At(value, path) ==
  IF Len(path) = 0 THEN value
  ELSE IF value.t = "table" /\ Head(path) \in DOMAIN value.v
       THEN At(value.v[Head(path)], Tail(path))
       ELSE None

\* a convention's marker is in the document: a key of tool, or a part of
\* build-system.build-backend or of an entry of build-system.requires
HasMarker(doc, marker) ==
  \/ At(doc, <<TOOL, marker>>) # None
  \/ /\ At(doc, <<BUILD_SYSTEM, BUILD_BACKEND>>) # None
     /\ Ch(marker) \in Range(At(doc, <<BUILD_SYSTEM, BUILD_BACKEND>>).v)
  \/ /\ At(doc, <<BUILD_SYSTEM, REQUIRES>>) # None
     /\ \E entry \in Range(At(doc, <<BUILD_SYSTEM, REQUIRES>>).v) :
          Ch(marker) \in Range(entry.v)

\* the table that governs: [project] for setuptools and flit, tool.poetry
\* for Poetry alone
ProjectGoverns(doc) == HasMarker(doc, SETUPTOOLS) \/ HasMarker(doc, FLIT)
PoetryGoverns(doc) == HasMarker(doc, POETRY) /\ ~ProjectGoverns(doc)

ClassifiersPath(doc) ==
  IF ProjectGoverns(doc) THEN <<PROJECT, CLASSIFIERS>>
  ELSE IF PoetryGoverns(doc) THEN <<TOOL, POETRY, CLASSIFIERS>>
  ELSE <<"no convention">>

RequiresPath(doc) ==
  IF ProjectGoverns(doc) THEN <<PROJECT, PYTHON_REQUIRES>>
  ELSE IF PoetryGoverns(doc) THEN <<TOOL, POETRY, DEPENDENCIES, PYTHON>>
  ELSE <<"no convention">>

\* the declaration fields of the governing table; None when absent
GoverningClassifiers(doc) == At(doc, ClassifiersPath(doc))
GoverningRequires(doc) == At(doc, RequiresPath(doc))

Warned(message) == message \in Range(err)

----------------------------------------------------------------------------
(* C1 *)

\* C1: get_supported_python_versions, given classifiers that are present
\* in the governing table but are not a list, returns the empty list and
\* emits 'The value specified for classifiers is not an array' (and does not
\* raise); given a list, it does not emit that diagnostic.
C1_NotAListWarns ==
  (call.op = "get_supported_python_versions" /\ FromStart) =>
    LET c == GoverningClassifiers(Given)
    IN  /\ (c # None /\ c.t # "list") =>
             (ret = List(<<>>) /\ err = <<NOT_AN_ARRAY>>)
        /\ (c # None /\ c.t = "list") => ~Warned(NOT_AN_ARRAY)

----------------------------------------------------------------------------
(* C2 *)

----------------------------------------------------------------------------
(* C3 *)

ClassifierOps == {"get_supported_python_versions", "update_supported_python_versions"}
RequiresOps == {"get_python_requires", "update_python_requires"}

\* the declaration field the call is about is absent from the document
FieldAbsent ==
  \/ call.op \in ClassifierOps /\ GoverningClassifiers(Given) = None
  \/ call.op \in RequiresOps /\ GoverningRequires(Given) = None

----------------------------------------------------------------------------
(* C4 *)

\* the field the call is about exists and has the wrong type
FieldMalformed ==
  \/ /\ call.op \in ClassifierOps
     /\ GoverningClassifiers(Given) # None
     /\ GoverningClassifiers(Given).t # "list"
  \/ /\ call.op \in RequiresOps
     /\ GoverningRequires(Given) # None
     /\ GoverningRequires(Given).t # "str"

\* C4: both update operations return None and emit a diagnostic when the
\* target field exists but is malformed (classifiers that are not a list, a
\* range expression that is not a string); no document is produced.
C4_MalformedNotUpdated ==
  (/\ call.op \in {"update_supported_python_versions", "update_python_requires"}
   /\ FromStart /\ FieldMalformed)
    => (ret = None /\ err # <<>>)

----------------------------------------------------------------------------
(* C5 *)

\* C5: update_python_requires, for any new versions and any kind of file,
\* when the range expression is missing from the document, returns None,
\* emits nothing, and does not reach the write step (whose results are a
\* list of lines, the empty list or a KeyError, never None).
C5_MissingRequiresUntouched ==
  (call.op = "update_python_requires" /\ GoverningRequires(Given) = None) =>
    (ret = None /\ err = <<>>)

\* a file object whose [project] table has no requires-python was left alone
C5_Witness ==
  /\ call.op = "update_python_requires"
  /\ file.kind = "StringIO" /\ call.atStart
  /\ ProjectGoverns(Given)
  /\ At(Given, <<PROJECT>>) # None
  /\ GoverningRequires(Given) = None
  /\ ret = None
  /\ err = <<>>

----------------------------------------------------------------------------
(* C6 *)

RECURSIVE Put(_, _, _)
\* the document with the value at an existing path replaced
Put(value, path, x) ==
  IF Len(path) = 1 THEN SetKey(value, Head(path), x)
  ELSE SetKey(value, Head(path), Put(value.v[Head(path)], Tail(path), x))

\* the path of the field an update reads
TargetPath ==
  IF call.op = "update_supported_python_versions"
  THEN ClassifiersPath(Given) ELSE RequiresPath(Given)

\* C6: the lines an update returns differ from the document only in the one
\* field whose value was read (the classifiers or the range expression of
\* the governing table), in every document some detector fires on, those
\* that match several conventions included.
C6_OnlyTargetFieldChanges ==
  (/\ call.op \in {"update_supported_python_versions", "update_python_requires"}
   /\ FromStart /\ ret.t = "lines")
    => Put(ret.v, TargetPath, At(Given, TargetPath)) = Given

----------------------------------------------------------------------------
(* C7 *)

\* C7: each detector is true exactly when its own marker is a key of the
\* tool table, a part of build-system.build-backend or a part of an entry of
\* build-system.requires, whatever the other two detectors say.
C7_DetectorsIndependent ==
  (call.op = "detect" /\ FromStart) =>
    /\ ret.poetry = HasMarker(Given, POETRY)
    /\ ret.setuptools = HasMarker(Given, SETUPTOOLS)
    /\ ret.flit = HasMarker(Given, FLIT)

\* a document carrying the setuptools and flit markers and not Poetry's:
\* two detectors are true and the third is false
C7_Witness ==
  /\ call.op = "detect"
  /\ At(Given, <<TOOL, SETUPTOOLS>>) # None
  /\ At(Given, <<BUILD_SYSTEM, BUILD_BACKEND>>) = FlitBuild.v[BUILD_BACKEND]
  /\ ret.setuptools /\ ret.flit /\ ~ret.poetry

----------------------------------------------------------------------------
(* C8 *)

\* the versions named by the lines that are the prefix and major.minor
NamedVersions(lines) ==
  {Version(l.v[2].n, l.v[4].n) :
     l \in {x \in Range(lines) :
              /\ Len(x.v) = 4 /\ x.v[1] = Ch(PREFIX)
              /\ x.v[2].k = "num" /\ x.v[3] = Ch(".") /\ x.v[4].k = "num"}}

StrictlyAscending(s) ==
  \A i \in 1..(Len(s) - 1) :
    \/ s[i].major < s[i + 1].major
    \/ s[i].major = s[i + 1].major /\ s[i].minor < s[i + 1].minor

\* C8: for a classifiers list in any order and with any duplicates,
\* get_supported_python_versions returns exactly the versions named by the
\* lines that match the prefix, strictly increasing by (major, minor); the
\* other lines are ignored without a diagnostic.
C8_ClassifierDecode ==
  (/\ call.op = "get_supported_python_versions" /\ FromStart
   /\ GoverningClassifiers(Given) # None
   /\ GoverningClassifiers(Given).t = "list")
    => /\ ret.t = "list"
       /\ err = <<>>
       /\ StrictlyAscending(ret.v)
       /\ Range(ret.v) = NamedVersions(GoverningClassifiers(Given).v)

\* 3.10 listed before 3.6 is returned after it
C8_Witness ==
  /\ call.op = "get_supported_python_versions"
  /\ GoverningClassifiers(Given) = List(<<PyLine(3, 10), PyLine(3, 6)>>)
  /\ ret = List(<<Version(3, 6), Version(3, 10)>>)

----------------------------------------------------------------------------
(* C9 *)

\* C9: for a document (a path) whose classifiers are a non-empty list, the
\* lines update_supported_python_versions returns declare exactly the new
\* versions: get_supported_python_versions on them returns new_versions.
C9_ClassifierRoundTrip ==
  (/\ call.op = "update_supported_python_versions" /\ file.kind = "str"
   /\ GoverningClassifiers(Given) # None
   /\ GoverningClassifiers(Given).t = "list"
   /\ Len(GoverningClassifiers(Given).v) > 0)
    => /\ ret.t = "lines"
       /\ get_supported_python_versions(File("str", TRUE, ret.v)).ret
            = List(call.new_versions)

----------------------------------------------------------------------------
(* C10 *)

\* C10: decoding the expression that encodes a non-empty strictly ascending
\* list V of known versions gives V again, in either comma and space style
\* and for each maximum known version; and the expression update_python_requires
\* writes for V is read back as V by get_python_requires.
C10_RangeRoundTrip ==
  /\ (call.op = "get_python_requires" /\ FromStart) =>
       \A V \in VersionLists(max3), comma \in Commas, space \in Spaces :
         GoverningRequires(Given) = Str(compute_python_requires(V, comma, space, max3))
           => ret = List(V)
  /\ (call.op = "update_python_requires" /\ ret.t = "lines") =>
       get_python_requires(File("str", TRUE, ret.v), max3).ret = List(call.new_versions)

\* '>=3.0' read with the smaller maximum known version: 3.0 up to that maximum
C10_Witness ==
  /\ call.op = "get_python_requires"
  /\ max3 = MaxMinor3 - 1
  /\ GoverningRequires(Given) = Str(GE(3, 0))
  /\ ret = List([i \in 1..(max3 + 1) |-> Version(3, i - 1)])

----------------------------------------------------------------------------
(* C11 *)

\* the range expression in the lines an update returned
Written == At(ret.v, RequiresPath(Given))

\* the known versions above the first of a list that the list leaves out
LeftOut(V, max) ==
  {v \in Range(KnownVersions(max)) :
     /\ V[1].major < v.major \/ (V[1].major = v.major /\ V[1].minor < v.minor)
     /\ v \notin Range(V)}

\* the text of an exclusion clause as it stands between two commas
ExclusionText(v, comma, space) ==
  Tail(comma) \o <<Ch("!"), Ch("=")>> \o space
    \o <<Num(v.major), Ch("."), Num(v.minor), Ch("."), Ch("*")>>

\* w is '>=' space first, then, each after the comma, '!=' space v '.*' for
\* exactly the versions V leaves out, ascending
HasEncodedForm(w, V, comma, space, max) ==
  LET parts == Split(w)
      X == LeftOut(V, max)
  IN  /\ Len(parts) = 1 + Cardinality(X)
      /\ parts[1] = <<Ch(">"), Ch("=")>> \o space
                      \o <<Num(V[1].major), Ch("."), Num(V[1].minor)>>
      /\ \A i \in 2..Len(parts) : \E v \in X : parts[i] = ExclusionText(v, comma, space)
      /\ \A i \in 2..Len(parts), j \in 2..Len(parts) :
           i < j => \E v \in X, u \in X :
                      /\ parts[i] = ExclusionText(v, comma, space)
                      /\ parts[j] = ExclusionText(u, comma, space)
                      /\ v.major < u.major \/ (v.major = u.major /\ v.minor < u.minor)

\* the expression in the document has a comma and no ', ', '> ' or '= '
CompactStyle(r) ==
  /\ r # None /\ r.t = "str"
  /\ SubStr(<<Ch(",")>>, r.v)
  /\ ~SubStr(<<Ch(","), Ch(" ")>>, r.v)
  /\ ~SubStr(<<Ch(">"), Ch(" ")>>, r.v)
  /\ ~SubStr(<<Ch("="), Ch(" ")>>, r.v)

\* C11: the expression update_python_requires writes for a non-empty
\* ascending list is '>=' + space + its first version followed, ascending and
\* each after the comma separator, by '!=' + space + v + '.*' for exactly the
\* known versions v above the first, up to the maximum, that are not in the
\* list; when the expression in the document was in the ',' and '' style the
\* written one has no space in it, whatever the new versions are.
C11_EncodedForm ==
  (call.op = "update_python_requires" /\ ret.t = "lines") =>
    /\ Written # None /\ Written.t = "str"
    /\ \E comma \in Commas, space \in Spaces :
         HasEncodedForm(Written.v, call.new_versions, comma, space, max3)
    /\ CompactStyle(GoverningRequires(Given)) =>
         /\ Ch(" ") \notin Range(Written.v)
         /\ HasEncodedForm(Written.v, call.new_versions, <<Ch(",")>>, <<>>, max3)

\* '>=2.7,!=3.0.*' rewritten for [2.7, 3.2] with 3.2 the latest known version
\* has two exclusions and no space
C11_Witness ==
  /\ call.op = "update_python_requires"
  /\ max3 = 2
  /\ GoverningRequires(Given) = Str(GE(2, 7) \o <<Ch(",")>> \o NE(3, 0))
  /\ call.new_versions = <<Version(2, 7), Version(3, 2)>>
  /\ ret.t = "lines"
  /\ Written = Str(GE(2, 7) \o <<Ch(",")>> \o NE(3, 0) \o <<Ch(",")>> \o NE(3, 1))

----------------------------------------------------------------------------
(* C12 *)

\* C12 as claimed: for any range expression of one lower-bound clause and
\* zero or more exclusion clauses, update_python_requires with the versions
\* the expression decodes to writes back the identical expression.
C12_AnyExpressionUnchanged ==
  (/\ call.op = "update_python_requires" /\ ret.t = "lines"
   /\ GoverningRequires(Given) # None
   /\ GoverningRequires(Given).t = "str"
   /\ parse_python_requires(GoverningRequires(Given).v, max3) = List(call.new_versions))
    => Written = GoverningRequires(Given)

\* C12 as amended: for a range expression in the encoder's form (the lower
\* bound first, then one exclusion for each known version above it that is
\* not supported, ascending, in one separator style and one operator spacing
\* throughout), update_python_requires with the versions it decodes to writes
\* back the identical expression.
C12_EncodedFormUnchanged ==
  (/\ call.op = "update_python_requires" /\ ret.t = "lines"
   /\ GoverningRequires(Given) # None
   /\ GoverningRequires(Given).t = "str"
   /\ \E comma \in Commas, space \in Spaces :
        HasEncodedForm(GoverningRequires(Given).v, call.new_versions, comma, space, max3))
    => Written = GoverningRequires(Given)

\* '>= 3.0,!= 3.1.*' rewritten for [3.0, 3.2] is '>= 3.0,!= 3.1.*'
C12_Witness ==
  /\ call.op = "update_python_requires"
  /\ call.new_versions = <<Version(3, 0), Version(3, 2)>>
  /\ GoverningRequires(Given) =
       Str(<<Ch(">"), Ch("="), Ch(" ")>> \o Render(Version(3, 0)) \o <<Ch(",")>>
           \o <<Ch("!"), Ch("="), Ch(" ")>> \o Render(Version(3, 1)) \o <<Ch("."), Ch("*")>>)
  /\ ret.t = "lines"
  /\ Written = GoverningRequires(Given)

----------------------------------------------------------------------------
(* C13 *)

\* '>=2.7,!=3.0.*' is to be updated to [2.7, 3.2]
PreservesStyleScenario ==
  /\ call.op = "update_python_requires" /\ FromStart
  /\ GoverningRequires(Given) = Str(GE(2, 7) \o <<Ch(",")>> \o NE(3, 0))
  /\ call.new_versions = <<Version(2, 7), Version(3, 2)>>

\* '>=2.7,!=3.0.*,!=3.1.*'
UpTo32 == GE(2, 7) \o <<Ch(",")>> \o NE(3, 0) \o <<Ch(",")>> \o NE(3, 1)

\* C13 as claimed: with the known versions running up to 3.11, updating
\* '>=2.7,!=3.0.*' to [2.7, 3.2] writes exactly '>=2.7,!=3.0.*,!=3.1.*'.
C13_KnownUpTo311 ==
  (PreservesStyleScenario /\ max3 = ScenarioMax) =>
    (ret.t = "lines" /\ Written = Str(UpTo32))

\* C13 as amended: updating '>=2.7,!=3.0.*' to [2.7, 3.2] writes exactly
\* '>=2.7,!=3.0.*,!=3.1.*' when the known versions run up to 3.2; when they
\* run up to 3.11 it writes that followed by ',!=3.3.*' up to ',!=3.11.*';
\* in both the separator has no space.
C13_KnownUpTo32 ==
  PreservesStyleScenario =>
    /\ max3 = 2 => (ret.t = "lines" /\ Written = Str(UpTo32))
    /\ max3 = ScenarioMax =>
         /\ ret.t = "lines"
         /\ Written = Str(UpTo32 \o <<Ch(",")>> \o NE(3, 3) \o <<Ch(",")>> \o NE(3, 4)
                           \o <<Ch(",")>> \o NE(3, 5) \o <<Ch(",")>> \o NE(3, 6)
                           \o <<Ch(",")>> \o NE(3, 7) \o <<Ch(",")>> \o NE(3, 8)
                           \o <<Ch(",")>> \o NE(3, 9) \o <<Ch(",")>> \o NE(3, 10)
                           \o <<Ch(",")>> \o NE(3, 11))

\* the scenario on a file object, as the test runs it, with 3.2 the latest
\* known version
C13_Witness ==
  /\ PreservesStyleScenario
  /\ max3 = 2
  /\ file.kind = "StringIO"
  /\ At(Given, <<PROJECT, "name">>) = Word("foo")
  /\ Written = Str(UpTo32)

----------------------------------------------------------------------------
(* C14 *)

\* C14: when the range expression in the document is a string with a line
\* break in it, get_python_requires and update_python_requires return None or
\* the empty list and emit a diagnostic; they do not raise, and the update
\* returns no rewritten document.
C14_MultiLineRefused ==
  (/\ call.op \in RequiresOps /\ FromStart
   /\ GoverningRequires(Given) # None
   /\ GoverningRequires(Given).t = "str"
   /\ Ch("\n") \in Range(GoverningRequires(Given).v))
    => (ret \in {None, List(<<>>)} /\ err # <<>>)

----------------------------------------------------------------------------
(* C15 *)

\* a value of the document, or the empty list when it is not there
OrEmptyList(x) == IF x = None THEN List(<<>>) ELSE x

\* C15: in a document that carries the setuptools or flit marker, with or
\* without Poetry's, the classifiers and the range expression read are those
\* of the [project] table (the empty list / None when the table or the key
\* is missing) and what tool.poetry holds is not used; with Poetry's marker
\* alone they are those of tool.poetry; with no marker they are the empty
\* list / None whatever the document holds.  get_supported_python_versions
\* and get_python_requires answer from the value so chosen.
C15_LaterCheckWins ==
  LET path == File("str", TRUE, Given)
      classifiers == _get_pyproject_toml_classifiers(path)
      python_requires == _get_pyproject_toml_python_requires(path)
      P == HasMarker(Given, POETRY)
      S == HasMarker(Given, SETUPTOOLS) \/ HasMarker(Given, FLIT)
  IN  /\ S => /\ classifiers = OrEmptyList(At(Given, <<PROJECT, CLASSIFIERS>>))
              /\ python_requires = At(Given, <<PROJECT, PYTHON_REQUIRES>>)
      /\ (P /\ ~S) =>
           /\ classifiers = OrEmptyList(At(Given, <<TOOL, POETRY, CLASSIFIERS>>))
           /\ python_requires = At(Given, <<TOOL, POETRY, DEPENDENCIES, PYTHON>>)
      /\ (~P /\ ~S) => (classifiers = List(<<>>) /\ python_requires = None)
      /\ (call.op = "get_supported_python_versions" /\ FromStart /\ P /\ S) =>
           /\ (At(Given, <<PROJECT, CLASSIFIERS>>) = None) => (ret = List(<<>>))
           /\ (/\ At(Given, <<PROJECT, CLASSIFIERS>>) # None
               /\ At(Given, <<PROJECT, CLASSIFIERS>>).t = "list") =>
                (/\ ret.t = "list"
                 /\ Range(ret.v) = NamedVersions(At(Given, <<PROJECT, CLASSIFIERS>>).v))
      /\ (call.op = "get_python_requires" /\ FromStart /\ P /\ S) =>
           ((At(Given, <<PROJECT, PYTHON_REQUIRES>>) = None) => (ret = None))
      /\ (call.op \in {"get_supported_python_versions", "get_python_requires"}
          /\ ~P /\ ~S) => (ret \in {List(<<>>), None})

\* a Poetry and flit document whose classifiers are under tool.poetry only:
\* nothing is read
C15_Witness ==
  /\ call.op = "get_supported_python_versions"
  /\ HasMarker(Given, POETRY) /\ HasMarker(Given, FLIT)
  /\ At(Given, <<TOOL, POETRY, CLASSIFIERS>>) # None
  /\ At(Given, <<TOOL, POETRY, CLASSIFIERS>>).t = "list"
  /\ Len(At(Given, <<TOOL, POETRY, CLASSIFIERS>>).v) > 0
  /\ At(Given, <<PROJECT>>) # None
  /\ At(Given, <<PROJECT, CLASSIFIERS>>) = None
  /\ ret = List(<<>>)

----------------------------------------------------------------------------
(* C16 *)

\* what the call returns when it is given a path to a file with the content
\* of the file object
ResultOnPath ==
  LET path == File("str", TRUE, Given)
  IN  IF call.op = "get_supported_python_versions"
      THEN get_supported_python_versions(path).ret
      ELSE IF call.op = "get_python_requires"
      THEN get_python_requires(path, max3).ret
      ELSE IF call.op = "update_supported_python_versions"
      THEN update_supported_python_versions(path, call.new_versions).ret
      ELSE update_python_requires(path, call.new_versions, max3).ret

\* C16: given a file object positioned at its start, each of the four
\* operations returns what it returns given a path to a file with the same
\* content; an update's second load sees the whole document.
C16_HandleAsPath ==
  (/\ call.op \in ClassifierOps \cup RequiresOps
   /\ file.kind # "str" /\ call.atStart)
    => ret = ResultOnPath

----------------------------------------------------------------------------
(* C17 *)

\* the read step of the update found a value to work on: a non-empty list of
\* classifiers, a range expression that is a string
ReadUsable ==
  \/ /\ call.op = "update_supported_python_versions"
     /\ GoverningClassifiers(Given) # None
     /\ GoverningClassifiers(Given).t = "list"
     /\ Len(GoverningClassifiers(Given).v) > 0
  \/ /\ call.op = "update_python_requires"
     /\ GoverningRequires(Given) # None
     /\ GoverningRequires(Given).t = "str"

\* the places of the declaration fields
FieldPaths ==
  {<<TOOL, POETRY, CLASSIFIERS>>, <<PROJECT, CLASSIFIERS>>,
   <<TOOL, POETRY, DEPENDENCIES, PYTHON>>, <<PROJECT, PYTHON_REQUIRES>>}

\* C17: when the read step of an update of a document (a path, or for
\* update_python_requires a file object at its start) finds a usable value,
\* the write step returns the rewritten lines: it raises no KeyError for a
\* missing tool, tool.poetry, tool.poetry.dependencies or project table, and
\* the lines hold no declaration field that the document did not have,
\* whichever detectors fire.
C17_ReadWriteConsistent ==
  (/\ ReadUsable
   /\ file.kind = "str" \/ (call.op = "update_python_requires" /\ call.atStart))
    => /\ ret.t = "lines"
       /\ \A p \in FieldPaths : (At(Given, p) = None) => (At(ret.v, p) = None)

====
